---- MODULE Spec2Model ----
(***************************************************************************)
(* dataclass_serializer: entities (dataclasses deriving Serializable) are  *)
(* turned into JSON-compatible tagged blobs and back.                      *)
(*                                                                         *)
(* Python objects are records whose field k names the runtime kind; the   *)
(* other fields carry the payload.  An exception raised by a function is   *)
(* the value Err(kind, message) returned in place of its result, and every *)
(* caller passes it on unchanged, as an uncaught exception propagates.     *)
(***************************************************************************)
EXTENDS Integers, Sequences, FiniteSets, TLC

\* Longest list, tuple, set, map or ordered map the inputs are drawn from.
MaxLen == 2

\* The platform's strftime: TRUE when %Y is zero-filled to four digits
\* (macOS, Windows), FALSE when it is not (glibc).
VARIABLES zero_pad_year

\* The caller's objects: the entity at hand, the blob at hand, the result of
\* the last call, the name of the last call, and the class and keyword
\* arguments of the last construction or Partial call.
VARIABLES obj, blob, out, op, args

vars == <<zero_pad_year, obj, blob, out, op, args>>

META_FIELD == "__ser__"

(***************************************************************************)
(* Python values                                                           *)
(***************************************************************************)
None == [k |-> "none"]
PyInt(n) == [k |-> "int", n |-> n]
\* A str is kept as a TLA+ string (s), or, when it is text that formatting
\* produced and parsing reads character by character, as its characters (cs).
PyStr(s) == [k |-> "str", s |-> s]
Chars(cs) == [k |-> "str", cs |-> cs]
List(xs) == [k |-> "list", xs |-> xs]
Tuple(xs) == [k |-> "tuple", xs |-> xs]
\* dict with str keys: a function from keys to values.
Dict(m) == [k |-> "dict", m |-> m]
\* OrderedDict: the entries <<key, value>> in iteration order.
ODict(es) == [k |-> "odict", es |-> es]
PySet(S) == [k |-> "set", elems |-> S]
Date(y, m, d) == [k |-> "date", y |-> y, mo |-> m, d |-> d]
\* datetime with minute, second and microsecond zero and no tzinfo.
DateTime(y, m, d, h) == [k |-> "datetime", y |-> y, mo |-> m, d |-> d, h |-> h]
\* Decimal, held by its canonical string form.
Decimal(s) == [k |-> "Decimal", s |-> s]
TypeRef(mod, name) == [k |-> "type", mod |-> mod, name |-> name]
FunctionRef(mod, name) == [k |-> "function", mod |-> mod, name |-> name]
ModuleRef(name) == [k |-> "module", name |-> name]
\* An instance of a dataclass deriving Serializable: f maps field names to values.
Entity(cls, f) == [k |-> "entity", cls |-> cls, f |-> f]
MISSING == [k |-> "MISSING"]
no_default == [k |-> "no_default"]
Err(e, msg) == [k |-> "error", e |-> e, msg |-> msg]

IsErr(x) == x.k = "error"
IsStrLit(x, lit) == x.k = "str" /\ "s" \in DOMAIN x /\ x.s = lit

\* The first exception raised while a sequence of results was computed, in order.
RECURSIVE FirstErr(_, _)
FirstErr(rs, i) ==
    IF i > Len(rs) THEN None
    ELSE IF IsErr(rs[i]) THEN rs[i] ELSE FirstErr(rs, i + 1)

AnyErr(rs) == \E i \in 1..Len(rs) : IsErr(rs[i])

\* A map's values hold an exception.
MapErr(m) == \E key \in DOMAIN m : IsErr(m[key])
MapFirstErr(m) == m[CHOOSE key \in DOMAIN m : IsErr(m[key])]

(***************************************************************************)
(* Text: number formatting and parsing, character by character             *)
(***************************************************************************)
DigitChars == <<"0", "1", "2", "3", "4", "5", "6", "7", "8", "9">>
IsDigit(c) == \E i \in 1..10 : DigitChars[i] = c
DigitOf(c) == (CHOOSE i \in 1..10 : DigitChars[i] = c) - 1

\* "%d" % n for n >= 0.
RECURSIVE Decimals(_)
Decimals(n) ==
    IF n < 10 THEN <<DigitChars[n + 1]>>
    ELSE Decimals(n \div 10) \o <<DigitChars[(n % 10) + 1]>>

\* "%02d" % n and "%04d" % n for n within the width.
Pad2(n) == <<DigitChars[(n \div 10) + 1], DigitChars[(n % 10) + 1]>>
Pad4(n) == Pad2(n \div 100) \o Pad2(n % 100)

AllDigits(cs) == \A i \in 1..Len(cs) : IsDigit(cs[i])

\* int(cs) for a non-empty run of digits.
RECURSIVE NumberOf(_)
NumberOf(cs) ==
    IF Len(cs) = 0 THEN 0
    ELSE 10 * NumberOf(SubSeq(cs, 1, Len(cs) - 1)) + DigitOf(cs[Len(cs)])

IsLeap(y) == (y % 4 = 0 /\ y % 100 # 0) \/ y % 400 = 0
DaysInMonth(y, m) ==
    IF m = 2 THEN (IF IsLeap(y) THEN 29 ELSE 28)
    ELSE IF m \in {4, 6, 9, 11} THEN 30 ELSE 31
ValidDate(y, m, d) ==
    y \in 1..9999 /\ m \in 1..12 /\ d \in 1..DaysInMonth(y, m)

\* date.strftime("%Y%m%d"): the C library formats the year, zero-filled or not.
strftime_Ymd(x) ==
    (IF zero_pad_year THEN Pad4(x.y) ELSE Decimals(x.y)) \o Pad2(x.mo) \o Pad2(x.d)

\* The ways the directive %m can match at the head of cs, as the lengths it
\* consumes, in the regular expression's order of preference:
\* 1[0-2] | 0[1-9] | [1-9].
MonthMatches(cs) ==
    (IF Len(cs) >= 2 /\ cs[1] = "1" /\ cs[2] \in {"0", "1", "2"} THEN <<2>> ELSE <<>>)
    \o (IF Len(cs) >= 2 /\ cs[1] = "0" /\ IsDigit(cs[2]) /\ cs[2] # "0" THEN <<2>> ELSE <<>>)
    \o (IF Len(cs) >= 1 /\ IsDigit(cs[1]) /\ cs[1] # "0" THEN <<1>> ELSE <<>>)

\* The same for %d: 3[01] | [12]\d | 0[1-9] | [1-9].
DayMatches(cs) ==
    (IF Len(cs) >= 2 /\ cs[1] = "3" /\ cs[2] \in {"0", "1"} THEN <<2>> ELSE <<>>)
    \o (IF Len(cs) >= 2 /\ cs[1] \in {"1", "2"} /\ IsDigit(cs[2]) THEN <<2>> ELSE <<>>)
    \o (IF Len(cs) >= 2 /\ cs[1] = "0" /\ IsDigit(cs[2]) /\ cs[2] # "0" THEN <<2>> ELSE <<>>)
    \o (IF Len(cs) >= 1 /\ IsDigit(cs[1]) /\ cs[1] # "0" THEN <<1>> ELSE <<>>)

Rest(cs, n) == SubSeq(cs, n + 1, Len(cs))

\* datetime.strptime(cs, "%Y%m%d").date(): the first match of
\* (\d\d\d\d)(month)(day) from the start of the text, which must then be the
\* whole text, and must name a day of the calendar.
strptime_Ymd(cs) ==
    LET bad == Err("ValueError", <<"time data does not match format">>)
    IN  IF ~(Len(cs) >= 4 /\ AllDigits(SubSeq(cs, 1, 4))) THEN bad
        ELSE LET y == NumberOf(SubSeq(cs, 1, 4))
                 r == Rest(cs, 4)
                 ms == MonthMatches(r)
                 \* the first month alternative after which a day matches
                 ok == {i \in 1..Len(ms) : DayMatches(Rest(r, ms[i])) # <<>>}
             IN  IF ok = {} THEN bad
                 ELSE LET i == CHOOSE j \in ok : \A j2 \in ok : j <= j2
                          m == NumberOf(SubSeq(r, 1, ms[i]))
                          r2 == Rest(r, ms[i])
                          dl == DayMatches(r2)[1]
                          d == NumberOf(SubSeq(r2, 1, dl))
                      IN  IF dl # Len(r2)
                          THEN Err("ValueError", <<"unconverted data remains">>)
                          ELSE IF ~ValidDate(y, m, d)
                          THEN Err("ValueError", <<"day is out of range for month">>)
                          ELSE Date(y, m, d)

\* datetime.isoformat() of a datetime with zero minute, second and microsecond
\* and no tzinfo: "%04d-%02d-%02dT%02d:00:00".
isoformat(x) ==
    Pad4(x.y) \o <<"-">> \o Pad2(x.mo) \o <<"-">> \o Pad2(x.d) \o <<"T">>
    \o Pad2(x.h) \o <<":", "0", "0", ":", "0", "0">>

\* datetime.fromisoformat(cs) on the texts isoformat produces (YYYY-MM-DDTHH:00:00).
fromisoformat(cs) ==
    LET bad == Err("ValueError", <<"Invalid isoformat string">>)
    IN  IF ~(/\ Len(cs) = 19
             /\ AllDigits(SubSeq(cs, 1, 4)) /\ cs[5] = "-"
             /\ AllDigits(SubSeq(cs, 6, 7)) /\ cs[8] = "-"
             /\ AllDigits(SubSeq(cs, 9, 10)) /\ cs[11] = "T"
             /\ AllDigits(SubSeq(cs, 12, 13))
             /\ SubSeq(cs, 14, 19) = <<":", "0", "0", ":", "0", "0">>)
        THEN bad
        ELSE LET y == NumberOf(SubSeq(cs, 1, 4))
                 m == NumberOf(SubSeq(cs, 6, 7))
                 d == NumberOf(SubSeq(cs, 9, 10))
                 h == NumberOf(SubSeq(cs, 12, 13))
             IN  IF ValidDate(y, m, d) /\ h \in 0..23 THEN DateTime(y, m, d, h) ELSE bad
(***************************************************************************)
(* Declared entity types and the importable names                          *)
(***************************************************************************)
TestModule == "test_dataclass_serializer"
LibModule == "dataclass_serializer.dataclass_serializer"

\* A dataclasses.Field: optional is _is_optional_field(field), default is the
\* declared default or MISSING, factory the default_factory ("none" for
\* MISSING), encode/decode/contract the metadata entries ("none" when absent).
Field(name, optional, default, factory, encode, decode, contract) ==
    [name |-> name, optional |-> optional, default |-> default,
     factory |-> factory, encode |-> encode, decode |-> decode,
     contract |-> contract]

Plain(name, optional) == Field(name, optional, MISSING, "none", "none", "none", "none")

Class(module, fields) == [module |-> module, fields |-> fields]

\* The dataclasses of the test module, the library's Partial, and further
\* declarations a user can make: a required field with a default, with and
\* without a codec, an encode with no decode, an optional field with a
\* default-factory, a codec between tuple and list, a codec that encodes a
\* negative number as None and None as 0, and two fields with a contract each.
ClassTable ==
    [Item |-> Class(TestModule, <<Plain("value", FALSE)>>),
     ItemWithDefault |->
        Class(TestModule, <<Field("value", TRUE, PyInt(1), "none", "none", "none", "none")>>),
     ItemWithDefaultFactory |->
        Class(TestModule, <<Field("value", FALSE, MISSING, "list", "none", "none", "none")>>),
     ItemWithOptional |-> Class(TestModule, <<Plain("value", TRUE)>>),
     ItemWithContract |->
        Class(TestModule, <<Field("value", TRUE, MISSING, "none", "none", "none", "positive")>>),
     ItemWithCustomSerialize |->
        Class(TestModule,
              <<Field("value", TRUE, MISSING, "none", "add_dashes", "drop_last3", "none")>>),
     ItemWithFields |-> Class(TestModule, <<Plain("value1", FALSE), Plain("value2", FALSE)>>),
     ItemWithNoDefault |->
        Class(TestModule, <<Field("value", FALSE, no_default, "none", "none", "none", "none")>>),
     Partial |-> Class(LibModule, <<Plain("func", FALSE), Plain("kwargs", FALSE)>>),
     ItemWithIntDefault |->
        Class(TestModule, <<Field("value", FALSE, PyInt(0), "none", "none", "none", "none")>>),
     ItemWithCodecDefault |->
        Class(TestModule, <<Field("value", FALSE, PyInt(5), "none", "inc", "dec", "none")>>),
     ItemWithEncodeOnly |->
        Class(TestModule, <<Field("value", FALSE, MISSING, "none", "inc", "none", "none")>>),
     ItemWithOptionalFactory |->
        Class(TestModule, <<Field("value", TRUE, MISSING, "list", "none", "none", "none")>>),
     ItemWithListCodec |->
        Class(TestModule, <<Field("value", FALSE, MISSING, "none", "to_list", "to_tuple", "none")>>),
     ItemWithNullCodec |->
        Class(TestModule,
              <<Field("value", FALSE, MISSING, "none", "neg_to_none", "none_to_neg", "none")>>),
     ItemWithContractFields |->
        Class(TestModule,
              <<Field("value1", FALSE, MISSING, "none", "none", "none", "positive"),
                Field("value2", FALSE, MISSING, "none", "none", "none", "positive")>>)]

ClassNames == DOMAIN ClassTable
FieldsOf(cls) == ClassTable[cls].fields
FieldNames(cls) == {FieldsOf(cls)[i].name : i \in 1..Len(FieldsOf(cls))}

\* "{}:{}".format(module, name)
QualName(module, name) == module \o ":" \o name

\* The modules import_module finds, and what getattr finds in them.
Modules == {TestModule, LibModule, "decimal", "pytest"}
GlobalTypes ==
    {<<ClassTable[c].module, c>> : c \in ClassNames} \cup {<<"decimal", "Decimal">>}
GlobalFunctions == {<<LibModule, "partial">>, <<TestModule, "test_partial">>}

import_module(name) ==
    IF name \in Modules THEN ModuleRef(name)
    ELSE Err("ModuleNotFoundError", <<"No module named {}", name>>)

\* getattr(import_module(m), c)
Resolve(m, c) ==
    IF IsErr(import_module(m)) THEN import_module(m)
    ELSE IF <<m, c>> \in GlobalTypes THEN TypeRef(m, c)
    ELSE IF <<m, c>> \in GlobalFunctions THEN FunctionRef(m, c)
    ELSE Err("AttributeError", <<"module {} has no attribute {}", m, c>>)

\* The texts of the form "<module>:<name>" that occur.
QualPairs ==
    (Modules \cup {"nowhere"})
    \X (ClassNames \cup {"Decimal", "partial", "test_partial", "<lambda>", "Local"})

\* m, c = s.split(":") for a str s: the two parts, or the exception of the
\* unpacking when s does not hold exactly one colon.
Split(s) ==
    IF s.k # "str" THEN Err("AttributeError", <<"object has no attribute split">>)
    ELSE IF "s" \in DOMAIN s /\ \E p \in QualPairs : QualName(p[1], p[2]) = s.s
    THEN LET p == CHOOSE q \in QualPairs : QualName(q[1], q[2]) = s.s
         IN  [k |-> "pair", m |-> p[1], c |-> p[2]]
    ELSE Err("ValueError", <<"not enough values to unpack">>)

(***************************************************************************)
(* Field metadata: the encode, decode and contract callables               *)
(***************************************************************************)
\* The str texts the inputs are drawn from.
Texts == {"a", "value"}
\* The characters of a text, as iterating over it yields them.
CharsOf(s) == IF s = "a" THEN <<"a">> ELSE <<"v", "a", "l", "u", "e">>

\* encode / decode hooks applied to x.
\*   add_dashes: lambda x: x + "---"     drop_last3: lambda x: x[:-3]
\*   inc:        lambda x: x + 1         dec:        lambda x: x - 1
\*   to_list:    list                    to_tuple:   tuple
\*   neg_to_none: lambda x: 0 if x is None else (None if x < 0 else x)
\*   none_to_neg: lambda x: -1 if x is None else x
Hook(name, x) ==
    CASE name \in {"to_list", "to_tuple"} ->
            IF x.k \in {"list", "tuple"}
            THEN (IF name = "to_list" THEN List(x.xs) ELSE Tuple(x.xs))
            ELSE IF x.k = "str" /\ (IF "s" \in DOMAIN x THEN x.s \in Texts ELSE TRUE)
            THEN LET cs == IF "s" \in DOMAIN x THEN CharsOf(x.s) ELSE x.cs
                     xs == [i \in 1..Len(cs) |-> PyStr(cs[i])]
                 IN  IF name = "to_list" THEN List(xs) ELSE Tuple(xs)
            ELSE IF x.k \in {"none", "int"}
            THEN Err("TypeError", <<"object is not iterable">>)
            ELSE Err("Unmodelled", <<"iteration">>)
      [] name = "add_dashes" ->
            IF x.k = "str" /\ "s" \in DOMAIN x THEN PyStr(x.s \o "---")
            ELSE IF x.k = "str" THEN Chars(x.cs \o <<"-", "-", "-">>)
            ELSE Err("TypeError", <<"unsupported operand type(s) for +">>)
      [] name = "drop_last3" ->
            IF x.k = "str" /\ "s" \in DOMAIN x
            THEN IF \E t \in Texts : t \o "---" = x.s
                 THEN PyStr(CHOOSE t \in Texts : t \o "---" = x.s)
                 ELSE IF Len(x.s) <= 3 THEN PyStr("")
                 ELSE Err("Unmodelled", <<"drop_last3">>)
            ELSE IF x.k = "str" THEN Chars(SubSeq(x.cs, 1, Len(x.cs) - 3))
            ELSE IF x.k = "list" THEN List(SubSeq(x.xs, 1, Len(x.xs) - 3))
            ELSE IF x.k = "tuple" THEN Tuple(SubSeq(x.xs, 1, Len(x.xs) - 3))
            ELSE Err("TypeError", <<"object is not subscriptable">>)
      [] name = "neg_to_none" ->
            IF x.k = "none" THEN PyInt(0)
            ELSE IF x.k = "int" THEN (IF x.n < 0 THEN None ELSE x)
            ELSE IF x.k = "Decimal" THEN Err("Unmodelled", <<"Decimal < int">>)
            ELSE Err("TypeError", <<"not supported between instances">>)
      [] name = "none_to_neg" -> IF x.k = "none" THEN PyInt(-1) ELSE x
      [] name = "inc" ->
            IF x.k = "int" THEN PyInt(x.n + 1)
            ELSE IF x.k = "Decimal" THEN Err("Unmodelled", <<"Decimal + int">>)
            ELSE Err("TypeError", <<"unsupported operand type(s) for +">>)
      [] name = "dec" ->
            IF x.k = "int" THEN PyInt(x.n - 1)
            ELSE IF x.k = "Decimal" THEN Err("Unmodelled", <<"Decimal - int">>)
            ELSE Err("TypeError", <<"unsupported operand type(s) for -">>)

\* The Decimal literals that occur; all are above zero.
DecimalLiterals == {"0.02521", "1.20"}

\* contract hooks.  positive: lambda x: x > 0, which raises on a value that
\* does not compare with an int.
ContractRaises(name, x) == name = "positive" /\ x.k \notin {"int", "Decimal"}
ContractHolds(name, x) ==
    /\ name = "positive"
    /\ \/ x.k = "int" /\ x.n > 0
       \/ x.k = "Decimal" /\ x.s \in DecimalLiterals

\* field.default_factory()
Factory(name) == IF name = "list" THEN List(<<>>) ELSE MISSING
(***************************************************************************)
(* Serializable.serialize and _serialize                                   *)
(***************************************************************************)
\* list(x) for a set x: its elements in the set's iteration order.
RECURSIVE SetToSeq(_)
SetToSeq(S) ==
    IF S = {} THEN <<>>
    ELSE LET x == CHOOSE y \in S : TRUE IN <<x>> \o SetToSeq(S \ {x})

Tagged(tag, value) == Dict((META_FIELD :> PyStr(tag)) @@ ("value" :> value))

RECURSIVE _serialize(_), serialize(_), SerializeFields(_, _, _)

_serialize(x) ==
    CASE x.k = "odict" ->
            Tagged("OrderedDict",
                   List([i \in 1..Len(x.es) |-> List(<<x.es[i][1], x.es[i][2]>>)]))
      [] x.k = "dict" ->
            LET m == [key \in DOMAIN x.m |-> _serialize(x.m[key])]
            IN  IF MapErr(m) THEN MapFirstErr(m) ELSE Dict(m)
      [] x.k = "list" ->
            LET xs == [i \in 1..Len(x.xs) |-> _serialize(x.xs[i])]
            IN  IF AnyErr(xs) THEN FirstErr(xs, 1) ELSE List(xs)
      [] x.k = "tuple" ->
            LET xs == [i \in 1..Len(x.xs) |-> _serialize(x.xs[i])]
            IN  IF AnyErr(xs) THEN FirstErr(xs, 1) ELSE Tagged("tuple", List(xs))
      [] x.k = "set" -> Tagged("set", List(SetToSeq(x.elems)))
      [] x.k = "entity" -> serialize(x)
      [] x.k = "type" -> Tagged("type", PyStr(QualName(x.mod, x.name)))
      [] x.k = "function" -> Tagged("function", PyStr(QualName(x.mod, x.name)))
      [] x.k = "module" -> Tagged("module", PyStr(x.name))
      [] x.k = "datetime" -> Tagged("datetime", Chars(isoformat(x)))
      [] x.k = "date" -> Tagged("date", Chars(strftime_Ymd(x)))
      [] x.k = "Decimal" -> Tagged("Decimal", PyStr(x.s))
      [] OTHER -> x

\* A serialize that checks the encoded value for None, not the field's value.
NullAfterEncode(field, value) ==
    /\ ~field.optional
    /\ (IF field.encode # "none" THEN Hook(field.encode, value) ELSE value) = None

\* A serialize that checks no value for None.
NullAccepted(field, value) == FALSE

\* serialize's check of a field's value: None where the declared type is not
\* Optional.
NullNotAllowed(field, value) == value = None /\ ~field.optional

\* serialize's check of a field's metadata: an encode without a decode.
EncodeWithoutDecode(field) == field.encode # "none" /\ field.decode = "none"

\* What serialize stores for a field: the value, encoded when the field
\* declares encode, then tagged.
EncodeAndTag(field, value) ==
    LET encoded == IF field.encode # "none" THEN Hook(field.encode, value) ELSE value
    IN  IF IsErr(encoded) THEN encoded ELSE _serialize(encoded)

\* A marker that leaves the module out: __name__ alone.
BareTypeId(cls) == PyStr(cls)

\* The entity's own marker: "{}:{}".format(__module__, __name__)
TypeId(cls) == PyStr(QualName(ClassTable[cls].module, cls))

\* The loop of serialize over fields[i..], o being the mapping built so far.
SerializeFields(self, i, o) ==
    IF i > Len(FieldsOf(self.cls))
    THEN Dict((META_FIELD :> TypeId(self.cls)) @@ o)
    ELSE LET field == FieldsOf(self.cls)[i]
             value == self.f[field.name]
         IN  IF NullNotAllowed(field, value)
             THEN Err("TypeError", <<"{} is not optional", field.name>>)
             ELSE IF EncodeWithoutDecode(field)
             THEN Err("ValueError",
                      <<"decode is not implemented for {} in {}", field.name, self.cls>>)
             ELSE LET tagged == EncodeAndTag(field, value)
                  IN  IF IsErr(tagged) THEN tagged
                      ELSE SerializeFields(self, i + 1, (field.name :> tagged) @@ o)

serialize(self) == SerializeFields(self, 1, <<>>)
(***************************************************************************)
(* Construction: the dataclass __init__, __post_init__, _validate_contracts *)
(***************************************************************************)
\* _is_optional_field(field)
_is_optional_field(field) == field.optional

\* A contract evaluated on every value, None included.
ContractOnAnyValue(field, value) == field.contract # "none"

\* The contract of a field is evaluated on its value: declared, and the value
\* not None.
ContractApplies(field, value) == field.contract # "none" /\ value # None

\* The loop of _validate_contracts over fields[i..]: None, or the exception.
RECURSIVE ValidateFields(_, _)
ValidateFields(self, i) ==
    IF i > Len(FieldsOf(self.cls)) THEN None
    ELSE LET field == FieldsOf(self.cls)[i]
             value == self.f[field.name]
         IN  IF value = None /\ ~_is_optional_field(field)
             THEN Err("TypeError", <<"{} is not optional", field.name>>)
             ELSE IF ContractApplies(field, value) /\ ContractRaises(field.contract, value)
             THEN Err("TypeError", <<"not supported between instances">>)
             ELSE IF ContractApplies(field, value) /\ ~ContractHolds(field.contract, value)
             THEN Err("ValueError", <<"break the contract for {}, {}", field.name, self.cls>>)
             ELSE ValidateFields(self, i + 1)

_validate_contracts(self) == ValidateFields(self, 1)

\* __post_init__: None, or the exception.
__post_init__(self) ==
    IF IsErr(_validate_contracts(self)) THEN _validate_contracts(self)
    ELSE IF \E key \in DOMAIN self.f : self.f[key] = no_default
    THEN Err("TypeError", <<"__init__ missing 1 required argument: {}">>)
    ELSE None

\* field.default / field.default_factory() as the generated __init__ uses them.
InitDefault(field) ==
    IF field.default # MISSING THEN field.default ELSE Factory(field.factory)

\* cls(**kwargs): the generated __init__ followed by __post_init__.
Construct(cls, kwargs) ==
    LET fields == FieldsOf(cls)
        required == {fields[i].name : i \in {j \in 1..Len(fields) :
                                              InitDefault(fields[j]) = MISSING}}
    IN  IF ~(DOMAIN kwargs \subseteq FieldNames(cls))
        THEN Err("TypeError", <<"__init__() got an unexpected keyword argument">>)
        ELSE IF ~(required \subseteq DOMAIN kwargs)
        THEN Err("TypeError", <<"__init__() missing required positional argument">>)
        ELSE LET self == Entity(cls,
                     [name \in FieldNames(cls) |->
                        IF name \in DOMAIN kwargs THEN kwargs[name]
                        ELSE InitDefault(CHOOSE fd \in {fields[i] : i \in 1..Len(fields)} :
                                            fd.name = name)])
             IN  IF IsErr(__post_init__(self)) THEN __post_init__(self) ELSE self

(***************************************************************************)
(* _deserialize and Serializable.deserialize                               *)
(***************************************************************************)
RECURSIVE Hashable(_)
Hashable(x) ==
    CASE x.k \in {"list", "dict", "odict", "set", "entity"} -> FALSE
      [] x.k = "tuple" -> \A i \in 1..Len(x.xs) : Hashable(x.xs[i])
      [] OTHER -> TRUE

\* OrderedDict(pairs): a repeated key keeps its first place and takes the
\* later value.
RECURSIVE ODictFrom(_, _)
ODictFrom(pairs, acc) ==
    IF pairs = <<>> THEN ODict(acc)
    ELSE LET p == Head(pairs)
             at == {i \in 1..Len(acc) : acc[i][1] = p[1]}
         IN  IF ~Hashable(p[1]) THEN Err("TypeError", <<"unhashable type">>)
             ELSE IF at = {} THEN ODictFrom(Tail(pairs), Append(acc, p))
             ELSE ODictFrom(Tail(pairs),
                            [i \in 1..Len(acc) |-> IF i \in at THEN p ELSE acc[i]])

\* _default_value(field)
_default_value(x) ==
    IF x.default # MISSING THEN x.default
    ELSE IF x.factory # "none" THEN Factory(x.factory)
    ELSE x.default

RECURSIVE _deserialize(_), ClsDeserialize(_, _), DeserializeFields(_, _, _, _)

\* The payload of a marker branch as the list it is walked as, or the
\* exception of walking something else.
Items(payload) ==
    IF payload.k \in {"list", "tuple"} THEN List(payload.xs)
    ELSE IF payload.k \in {"none", "int"}
    THEN Err("TypeError", <<"object is not iterable">>)
    ELSE Err("Unmodelled", <<"iteration">>)

\* (v[0], _deserialize(v[1])) for an entry v of an OrderedDict payload.
Entry(v) ==
    IF v.k \in {"list", "tuple"}
    THEN IF Len(v.xs) < 2 THEN Err("IndexError", <<"index out of range">>)
         ELSE LET value == _deserialize(v.xs[2])
              IN  IF IsErr(value) THEN value
                  ELSE [k |-> "pair", key |-> v.xs[1], value |-> value]
    ELSE IF v.k \in {"none", "int"}
    THEN Err("TypeError", <<"object is not subscriptable">>)
    ELSE Err("Unmodelled", <<"subscript">>)

\* [_deserialize(xi) for xi in payload]: a list, or the first exception.
UntagItems(payload) ==
    LET items == Items(payload)
    IN  IF IsErr(items) THEN items
        ELSE LET xs == [i \in 1..Len(items.xs) |-> _deserialize(items.xs[i])]
             IN  IF AnyErr(xs) THEN FirstErr(xs, 1) ELSE List(xs)

\* Decimal(v)
ToDecimal(v) ==
    IF v.k = "str" /\ "s" \in DOMAIN v
    THEN IF v.s \in DecimalLiterals THEN Decimal(v.s)
         ELSE Err("InvalidOperation", <<"ConversionSyntax">>)
    ELSE IF v.k \in {"none", "list", "dict", "odict", "set"}
    THEN Err("TypeError", <<"conversion to Decimal is not supported">>)
    ELSE Err("Unmodelled", <<"Decimal">>)

\* getattr(import_module(m), c) for m, c = v.split(":")
ResolveText(v) ==
    IF IsErr(Split(v)) THEN Split(v) ELSE Resolve(Split(v).m, Split(v).c)

\* The branches of _deserialize on a mapping x that holds the marker key.
Untag(x) ==
    LET tag == x.m[META_FIELD]
        IsTag(t) == IsStrLit(tag, t)
        builtin == \E t \in {"OrderedDict", "tuple", "set", "datetime", "date",
                             "Decimal", "type", "function", "module"} : IsTag(t)
        value == x.m["value"]
    IN  IF builtin /\ "value" \notin DOMAIN x.m THEN Err("KeyError", <<"value">>)
        ELSE IF IsTag("OrderedDict") THEN
            LET items == Items(value)
            IN  IF IsErr(items) THEN items
                ELSE LET es == [i \in 1..Len(items.xs) |-> Entry(items.xs[i])]
                     IN  IF AnyErr(es) THEN FirstErr(es, 1)
                         ELSE ODictFrom([i \in 1..Len(es) |-> <<es[i].key, es[i].value>>],
                                        <<>>)
        ELSE IF IsTag("tuple") THEN
            LET xs == UntagItems(value)
            IN  IF IsErr(xs) THEN xs ELSE Tuple(xs.xs)
        ELSE IF IsTag("set") THEN
            LET xs == UntagItems(value)
            IN  IF IsErr(xs) THEN xs
                ELSE IF \E i \in 1..Len(xs.xs) : ~Hashable(xs.xs[i])
                THEN Err("TypeError", <<"unhashable type">>)
                ELSE PySet({xs.xs[i] : i \in 1..Len(xs.xs)})
        ELSE IF IsTag("datetime") THEN
            IF value.k # "str" THEN Err("TypeError", <<"fromisoformat: argument must be str">>)
            ELSE IF "cs" \in DOMAIN value THEN fromisoformat(value.cs)
            ELSE Err("ValueError", <<"Invalid isoformat string">>)
        ELSE IF IsTag("date") THEN
            IF value.k # "str" THEN Err("TypeError", <<"strptime() argument 1 must be str">>)
            ELSE IF "cs" \in DOMAIN value THEN strptime_Ymd(value.cs)
            ELSE Err("ValueError", <<"time data does not match format">>)
        ELSE IF IsTag("Decimal") THEN ToDecimal(value)
        ELSE IF IsTag("type") \/ IsTag("function") THEN ResolveText(value)
        ELSE IF IsTag("module") THEN
            IF value.k = "str" /\ "s" \in DOMAIN value THEN import_module(value.s)
            ELSE IF value.k = "str"
            THEN Err("ModuleNotFoundError", <<"No module named {}">>)
            ELSE Err("AttributeError", <<"object has no attribute startswith">>)
        ELSE LET cls == ResolveText(tag)
             IN  IF IsErr(cls) THEN cls
                 ELSE IF cls.k = "type" /\ cls.name \in ClassNames
                         /\ ClassTable[cls.name].module = cls.mod
                 THEN ClsDeserialize(cls.name, x)
                 ELSE Err("AttributeError", <<"object has no attribute deserialize">>)

_deserialize(x) ==
    CASE x.k = "dict" ->
            IF META_FIELD \in DOMAIN x.m THEN Untag(x)
            ELSE LET m == [key \in DOMAIN x.m |-> _deserialize(x.m[key])]
                 IN  IF MapErr(m) THEN MapFirstErr(m) ELSE Dict(m)
      [] x.k = "odict" ->
            \* an OrderedDict is a dict: without the marker key it comes back
            \* as a plain dict of the untagged values
            IF \A i \in 1..Len(x.es) :
                  /\ x.es[i][1].k = "str" /\ "s" \in DOMAIN x.es[i][1]
                  /\ x.es[i][1].s # META_FIELD
            THEN LET m == [key \in {x.es[i][1].s : i \in 1..Len(x.es)} |->
                              _deserialize(x.es[CHOOSE i \in 1..Len(x.es) :
                                                    x.es[i][1].s = key][2])]
                 IN  IF MapErr(m) THEN MapFirstErr(m) ELSE Dict(m)
            ELSE Err("Unmodelled", <<"dict with keys that are not str">>)
      [] x.k = "list" ->
            LET xs == [i \in 1..Len(x.xs) |-> _deserialize(x.xs[i])]
            IN  IF AnyErr(xs) THEN FirstErr(xs, 1) ELSE List(xs)
      [] OTHER -> x

\* A deserialize that treats an absent optional field as any absent field,
\* resolving it to its default.
DefaultForAbsent(field, data) == FALSE

\* deserialize's first check of a field: absent from the input, and optional.
AbsentOptional(field, data) == field.name \notin DOMAIN data /\ _is_optional_field(field)

\* data.get(field.name, _default_value(field))
RawValue(field, data) ==
    IF field.name \in DOMAIN data THEN data[field.name] ELSE _default_value(field)

\* A deserialize that lets the MISSING sentinel through.
NothingMissing(value) == FALSE

\* value == dataclasses.MISSING
IsMissing(value) == value = MISSING

\* The two steps in the other order: decoded, then untagged.
DecodeThenUntag(field, raw) ==
    LET decoded == IF field.decode = "none" THEN raw ELSE Hook(field.decode, raw)
    IN  IF IsErr(decoded) THEN decoded ELSE _deserialize(decoded)

\* What deserialize stores for a raw value: untagged, then decoded when the
\* field declares decode.
UntagAndDecode(field, raw) ==
    LET untagged == _deserialize(raw)
    IN  IF IsErr(untagged) \/ field.decode = "none" THEN untagged
        ELSE Hook(field.decode, untagged)

\* The loop of deserialize over fields[i..] of cls: data is the input mapping
\* without the marker key, o the keyword arguments resolved so far.
DeserializeFields(cls, data, i, o) ==
    IF i > Len(FieldsOf(cls)) THEN Construct(cls, o)
    ELSE LET field == FieldsOf(cls)[i]
         IN  IF AbsentOptional(field, data)
             THEN DeserializeFields(cls, data, i + 1, (field.name :> None) @@ o)
             ELSE LET raw == RawValue(field, data)
                  IN  IF IsMissing(raw)
                      THEN Err("ValueError",
                               <<"deserialized with unknown value for {} in {}",
                                 field.name, cls>>)
                      ELSE LET value == UntagAndDecode(field, raw)
                           IN  IF IsErr(value) THEN value
                               ELSE DeserializeFields(cls, data, i + 1,
                                                      (field.name :> value) @@ o)

\* cls.deserialize(data)
ClsDeserialize(cls, data) ==
    DeserializeFields(cls, [key \in DOMAIN data.m \ {META_FIELD} |-> data.m[key]], 1, <<>>)

deserialize(x) == _deserialize(x)
(***************************************************************************)
(* validate: the JSON text boundary and equality                           *)
(***************************************************************************)
\* The key json.dumps writes for a mapping key.
KeyText(key) ==
    IF key.k = "int" THEN ToString(key.n)
    ELSE IF key.k = "str" /\ "s" \in DOMAIN key THEN key.s
    ELSE IF key.k = "none" THEN "null"
    ELSE "?"
KeyOk(key) == key.k \in {"int", "none"} \/ (key.k = "str" /\ "s" \in DOMAIN key)

\* json.loads(json.dumps(x))
RECURSIVE Json(_)
Json(x) ==
    CASE x.k \in {"none", "int", "str"} -> x
      [] x.k \in {"list", "tuple"} ->
            LET xs == [i \in 1..Len(x.xs) |-> Json(x.xs[i])]
            IN  IF AnyErr(xs) THEN FirstErr(xs, 1) ELSE List(xs)
      [] x.k = "dict" ->
            LET m == [key \in DOMAIN x.m |-> Json(x.m[key])]
            IN  IF MapErr(m) THEN MapFirstErr(m) ELSE Dict(m)
      [] x.k = "odict" ->
            IF \E i \in 1..Len(x.es) : ~KeyOk(x.es[i][1])
            THEN Err("TypeError", <<"keys must be str, int, float, bool or None">>)
            ELSE LET keys == {KeyText(x.es[i][1]) : i \in 1..Len(x.es)}
                     last(key) == CHOOSE i \in 1..Len(x.es) :
                                     /\ KeyText(x.es[i][1]) = key
                                     /\ \A j \in 1..Len(x.es) :
                                           KeyText(x.es[j][1]) = key => j <= i
                     m == [key \in keys |-> Json(x.es[last(key)][2])]
                 IN  IF MapErr(m) THEN MapFirstErr(m) ELSE Dict(m)
      [] OTHER -> Err("TypeError", <<"Object of type {} is not JSON serializable", x.k>>)

\* a == b
RECURSIVE PyEq(_, _)
PyEq(a, b) ==
    CASE a.k \in {"list", "tuple"} /\ b.k = a.k ->
            /\ Len(a.xs) = Len(b.xs)
            /\ \A i \in 1..Len(a.xs) : PyEq(a.xs[i], b.xs[i])
      [] a.k = "dict" /\ b.k = "dict" ->
            /\ DOMAIN a.m = DOMAIN b.m
            /\ \A key \in DOMAIN a.m : PyEq(a.m[key], b.m[key])
      [] a.k = "odict" /\ b.k = "odict" ->
            /\ Len(a.es) = Len(b.es)
            /\ \A i \in 1..Len(a.es) :
                  PyEq(a.es[i][1], b.es[i][1]) /\ PyEq(a.es[i][2], b.es[i][2])
      [] a.k = "odict" /\ b.k = "dict" ->
            /\ \A i \in 1..Len(a.es) : a.es[i][1].k = "str" /\ "s" \in DOMAIN a.es[i][1]
            /\ {a.es[i][1].s : i \in 1..Len(a.es)} = DOMAIN b.m
            /\ \A i \in 1..Len(a.es) : PyEq(a.es[i][2], b.m[a.es[i][1].s])
      [] a.k = "dict" /\ b.k = "odict" -> PyEq(b, a)
      [] a.k = "entity" /\ b.k = "entity" ->
            /\ a.cls = b.cls
            /\ \A name \in DOMAIN a.f : PyEq(a.f[name], b.f[name])
      [] OTHER -> a = b

\* json.loads(json.dumps(data)) of what serialize returned.
JsonOf(data) == IF IsErr(data) THEN data ELSE Json(data)

\* self.__class__.deserialize(text) of what the JSON round trip returned.
FromJson(cls, text) == IF IsErr(text) THEN text ELSE ClsDeserialize(cls, text)

\* if self != back: raise ValueError
SameOrRaise(self, back) ==
    IF IsErr(back) THEN back
    ELSE IF ~PyEq(self, back)
    THEN Err("ValueError", <<"could not be deserialized with same value">>)
    ELSE None

\* The result of _validate_contracts, and when it is None the rest of validate.
ContractsThen(checked, rest) == IF IsErr(checked) THEN checked ELSE rest

\* self.validate(): None, or the exception.
validate(self) ==
    ContractsThen(_validate_contracts(self),
                  SameOrRaise(self, FromJson(self.cls, JsonOf(serialize(self)))))

(***************************************************************************)
(* Partial                                                                 *)
(***************************************************************************)
\* func(**kwargs) for the callables a Partial wraps here: an entity type, or
\* the library's partial(func, **kwargs).
Call(func, kwargs) ==
    IF func.k = "type" /\ func.name \in ClassNames /\ ClassTable[func.name].module = func.mod
    THEN Construct(func.name, kwargs)
    ELSE IF func = FunctionRef(LibModule, "partial")
    THEN IF "func" \notin DOMAIN kwargs
         THEN Err("TypeError", <<"partial() missing 1 required positional argument: func">>)
         ELSE Construct("Partial",
                        [func |-> kwargs["func"],
                         kwargs |-> Dict([key \in DOMAIN kwargs \ {"func"} |-> kwargs[key]])])
    ELSE IF func.k \in {"type", "function"} THEN Err("Unmodelled", <<"call">>)
    ELSE Err("TypeError", <<"object is not callable">>)

\* A merge in which a call-time argument replaces the stored one.
CallTimeOverrides(stored, kwargs) == kwargs @@ stored

\* The keyword arguments of f(**stored, **kwargs): the union of the two, or
\* MISSING when a name is given twice, which the call rejects.
MergeKwargs(stored, kwargs) ==
    IF DOMAIN stored \cap DOMAIN kwargs # {} THEN MISSING ELSE stored @@ kwargs

\* Partial.__call__(self, **kwargs): self.func(**self.kwargs, **kwargs)
PartialCall(self, kwargs) ==
    IF self.f["kwargs"].k \notin {"dict", "odict"}
    THEN Err("TypeError", <<"argument after ** must be a mapping">>)
    ELSE IF self.f["kwargs"].k = "odict" THEN Err("Unmodelled", <<"** of OrderedDict">>)
    ELSE LET merged == MergeKwargs(self.f["kwargs"].m, kwargs)
         IN  IF merged = MISSING
             THEN Err("TypeError", <<"got multiple values for keyword argument">>)
             ELSE Call(self.f["func"], merged)

\* partial(func, **kwargs)
partial(func, kwargs) == Construct("Partial", [func |-> func, kwargs |-> Dict(kwargs)])
(***************************************************************************)
(* The values and keyword arguments the calls are made with                *)
(***************************************************************************)
SeqsOf(S, n) == UNION {[1..m -> S] : m \in 0..n}
MapsOf(Keys, S, n) ==
    UNION {[D -> S] : D \in {E \in SUBSET Keys : Cardinality(E) <= n}}

Elems == {None, PyInt(1), PyStr("a")}
Prims == Elems \cup {PyInt(-1), PyInt(3), PyStr("value")}
Scalars ==
    {Date(2015, 11, 11), Date(999, 1, 2), DateTime(2015, 11, 11, 10),
     Decimal("0.02521"),
     TypeRef("decimal", "Decimal"), TypeRef(TestModule, "ItemWithFields"),
     TypeRef(TestModule, "Local"), FunctionRef(LibModule, "partial"),
     FunctionRef(TestModule, "<lambda>"), ModuleRef("pytest"),
     Entity("Item", [value |-> PyInt(5)])}
Lists == {List(xs) : xs \in SeqsOf(Elems, MaxLen)}
Tuples == {Tuple(xs) : xs \in SeqsOf(Elems, MaxLen)}
Sets == {PySet(S) : S \in {E \in SUBSET Elems : Cardinality(E) <= MaxLen}}
Dicts ==
    {Dict(m) : m \in MapsOf({"key", "value", META_FIELD}, Elems, MaxLen)}
    \cup {Tagged("tuple", List(<<PyInt(1)>>))}
ODictKeys == {PyInt(3), PyStr("a")}
ODicts ==
    {ODict(es) : es \in {e \in SeqsOf(ODictKeys \X Elems, MaxLen) :
                            \A i, j \in 1..Len(e) : e[i][1] = e[j][1] => i = j}}
Level1 == Prims \cup Scalars \cup Lists \cup Tuples \cup Sets \cup Dicts \cup ODicts

\* Values nested one level further: each of these inside each container.
Nested ==
    Scalars \cup {Tuple(<<PyInt(3)>>), List(<<PyInt(1)>>), PySet({PyInt(1)}),
                  Dict("key" :> PyInt(1)), ODict(<<<<PyStr("a"), PyInt(1)>>>>)}
Level2 ==
    UNION {{List(<<x>>), Tuple(<<x>>), Dict("key" :> x), ODict(<<<<PyInt(3), x>>>>)} :
           x \in Nested}
    \cup {PySet({x}) : x \in {y \in Nested : Hashable(y)}}
    \cup {Tuple(<<Tuple(<<PyInt(3)>>), Tuple(<<PyInt(1)>>)>>)}

Values == Level1 \cup Level2

\* The values given to the fields of a class of two fields, assigned to a
\* field after construction, and passed when a Partial is called.
FewValues == {None, PyInt(1), PyInt(-1), PyStr("a")}

\* The values given to the one field of cls.  A field whose codec does integer
\* arithmetic is given the primitive values; one whose codec is list/tuple is
\* given sequences, nested ones included, and values that are not iterable.
ValuesFor(cls) ==
    IF FieldsOf(cls)[1].encode \in {"inc", "neg_to_none"} THEN Prims
    ELSE IF FieldsOf(cls)[1].encode = "to_list"
    THEN {None, PyInt(1)} \cup Lists \cup Tuples
         \cup {Tuple(<<x>>) : x \in Nested} \cup {List(<<x>>) : x \in Nested}
         \cup {Tuple(<<Tuple(<<PyInt(3)>>), Tuple(<<PyInt(1)>>)>>)}
    ELSE Values

\* The keyword arguments cls is constructed with.
KwargsFor(cls) ==
    IF cls = "Partial"
    THEN {[func |-> fn, kwargs |-> Dict(kw)] :
            fn \in {TypeRef(TestModule, "ItemWithFields"), TypeRef(TestModule, "Item"),
                    FunctionRef(LibModule, "partial")},
            kw \in MapsOf({"value1", "value2"}, {PyStr("a")}, MaxLen)}
    ELSE IF Len(FieldsOf(cls)) = 1
    THEN {<<>>} \cup {[value |-> v] : v \in ValuesFor(cls)}
    ELSE MapsOf(FieldNames(cls), FewValues, Len(FieldsOf(cls)))

CallKwargs == MapsOf({"value1", "value2", "vvalue2"}, {PyStr("b")}, MaxLen)

(***************************************************************************)
(* The calls a user of the library makes                                   *)
(***************************************************************************)
Init ==
    /\ zero_pad_year \in BOOLEAN
    /\ obj = None
    /\ blob = None
    /\ out = None
    /\ op = "start"
    /\ args = [cls |-> "", kwargs |-> <<>>]

\* e = cls(**kwargs)
New(cls, kwargs) ==
    /\ op = "start"
    /\ out' = Construct(cls, kwargs)
    /\ obj' = IF IsErr(out') THEN None ELSE out'
    /\ op' = "new"
    /\ args' = [cls |-> cls, kwargs |-> kwargs]
    /\ UNCHANGED <<zero_pad_year, blob>>

\* e.name = value, on a dataclass that is not frozen
SetAttr(name, value) ==
    /\ op = "new"
    /\ obj.k = "entity"
    /\ obj.cls # "Partial"
    /\ name \in DOMAIN obj.f
    /\ obj' = [obj EXCEPT !.f[name] = value]
    /\ out' = None
    /\ op' = "setattr"
    /\ UNCHANGED <<zero_pad_year, blob, args>>

\* blob = e.serialize()
Serialize ==
    /\ op \in {"new", "setattr"}
    /\ obj.k = "entity"
    /\ out' = serialize(obj)
    /\ blob' = IF IsErr(out') THEN None ELSE out'
    /\ op' = "serialize"
    /\ UNCHANGED <<zero_pad_year, obj, args>>

\* blob = json.loads(json.dumps(blob))
JsonRoundTrip ==
    /\ op = "serialize"
    /\ blob.k = "dict"
    /\ out' = Json(blob)
    /\ blob' = IF IsErr(out') THEN None ELSE out'
    /\ op' = "json"
    /\ UNCHANGED <<zero_pad_year, obj, args>>

\* del blob[name]: the blob of an older version of the entity type, written
\* before the field was declared.
DropField(name) ==
    /\ op \in {"serialize", "json", "drop"}
    /\ blob.k = "dict"
    /\ name \in DOMAIN blob.m \ {META_FIELD}
    /\ blob' = Dict([key \in DOMAIN blob.m \ {name} |-> blob.m[key]])
    /\ out' = None
    /\ op' = "drop"
    /\ UNCHANGED <<zero_pad_year, obj, args>>

\* deserialize(blob)
Deserialize ==
    /\ op \in {"serialize", "json", "drop"}
    /\ blob.k = "dict"
    /\ out' = deserialize(blob)
    /\ op' = "deserialize"
    /\ UNCHANGED <<zero_pad_year, obj, blob, args>>

\* e.validate()
Validate ==
    /\ op \in {"new", "setattr"}
    /\ obj.k = "entity"
    /\ out' = validate(obj)
    /\ op' = "validate"
    /\ UNCHANGED <<zero_pad_year, obj, blob, args>>

\* p(**kwargs) for a Partial p
CallPartial(kwargs) ==
    /\ op = "new"
    /\ obj.k = "entity"
    /\ obj.cls = "Partial"
    /\ out' = PartialCall(obj, kwargs)
    /\ op' = "call"
    /\ args' = [cls |-> "", kwargs |-> kwargs]
    /\ UNCHANGED <<zero_pad_year, obj, blob>>

Next ==
    \/ \E cls \in ClassNames : \E kwargs \in KwargsFor(cls) : New(cls, kwargs)
    \/ \E name \in {"value", "value1", "value2"} : \E value \in FewValues : SetAttr(name, value)
    \/ Serialize
    \/ JsonRoundTrip
    \/ \E name \in {"value", "value1", "value2", "func", "kwargs"} : DropField(name)
    \/ Deserialize
    \/ Validate
    \/ \E kwargs \in CallKwargs : CallPartial(kwargs)

Spec == Init /\ [][Next]_vars

\* No call left the part of Python that is modelled.
Modelled == ~(out.k = "error" /\ out.e = "Unmodelled")

(***************************************************************************)
(* Properties                                                              *)
(***************************************************************************)
\* The declared fields of cls by position.
Positions(cls) == 1..Len(FieldsOf(cls))
FieldAt(cls, i) == FieldsOf(cls)[i]

\* The blob at hand names an entity type in its marker, and which.
HasBlobClass ==
    /\ blob.k = "dict"
    /\ META_FIELD \in DOMAIN blob.m
    /\ \E c \in ClassNames : blob.m[META_FIELD] = PyStr(ClassTable[c].module \o ":" \o c)
BlobClass ==
    CHOOSE c \in ClassNames : blob.m[META_FIELD] = PyStr(ClassTable[c].module \o ":" \o c)

\* The field values round-trip identity is promised for, read narrowly:
\* primitives; lists, tuples, string-keyed maps without the reserved key and
\* ordered maps of such values; sets of primitives; dates of a four-digit
\* year, datetimes, decimals; references that resolve to themselves; entities
\* of types without codec hooks that construct from such values.
RECURSIVE Supported(_)
Supported(x) ==
    CASE x.k \in {"none", "int", "str", "datetime", "Decimal"} -> TRUE
      [] x.k = "date" -> x.y >= 1000
      [] x.k \in {"list", "tuple"} -> \A i \in 1..Len(x.xs) : Supported(x.xs[i])
      [] x.k = "dict" ->
            META_FIELD \notin DOMAIN x.m /\ \A key \in DOMAIN x.m : Supported(x.m[key])
      [] x.k = "odict" ->
            \A i \in 1..Len(x.es) : x.es[i][1].k \in {"int", "str"} /\ Supported(x.es[i][2])
      [] x.k = "set" -> \A y \in x.elems : y.k \in {"none", "int", "str"}
      [] x.k \in {"type", "function"} -> Resolve(x.mod, x.name) = x
      [] x.k = "module" -> import_module(x.name) = x
      [] x.k = "entity" ->
            /\ \A i \in Positions(x.cls) :
                  FieldAt(x.cls, i).encode = "none" /\ FieldAt(x.cls, i).decode = "none"
            /\ \A name \in DOMAIN x.f : Supported(x.f[name])
            /\ Construct(x.cls, x.f) = x
      [] OTHER -> FALSE

\* C1 (as claimed): for every entity e constructed from supported field
\* values, deserialize(e.serialize()) is an entity equal to e, and
\* e.validate() does not raise.
RoundTripIdentity ==
    /\ (op = "deserialize" /\ Supported(obj) /\ blob = serialize(obj)) =>
          (out.k = "entity" /\ PyEq(obj, out))
    /\ (op = "validate" /\ Supported(obj)) => out = None

\* C2: when serialize() returns, the result is a mapping whose keys are the
\* declared field names and the reserved key; each field name maps to the
\* tagged form of the field's value, encoded first when the field declares
\* encode, and the reserved key maps to "<module>:<class name>" of the
\* entity's own type.
WireFormat ==
    (op = "serialize" /\ ~IsErr(out)) =>
        /\ out.k = "dict"
        /\ DOMAIN out.m = FieldNames(obj.cls) \cup {META_FIELD}
        /\ out.m[META_FIELD] = PyStr(ClassTable[obj.cls].module \o ":" \o obj.cls)
        /\ \A i \in Positions(obj.cls) :
              LET field == FieldAt(obj.cls, i)
                  v == obj.f[field.name]
              IN  out.m[field.name] =
                     _serialize(IF field.encode = "none" THEN v ELSE Hook(field.encode, v))

\* C2, its case: Item(value=1).serialize() is
\* {"value": 1, "__ser__": "test_dataclass_serializer:Item"}.
WireFormatWitness ==
    /\ op = "serialize"
    /\ obj = Entity("Item", [value |-> PyInt(1)])
    /\ out = Dict(("value" :> PyInt(1))
                  @@ (META_FIELD :> PyStr("test_dataclass_serializer:Item")))

\* C3: deserializing a blob in which an optional field is absent yields an
\* entity with None in that field, whatever default or default-factory the
\* field declares; nothing is untagged or decoded for it, so when every field
\* of the type is optional and absent the result is the entity of all None.
AbsentOptionalIsNull ==
    (op = "deserialize" /\ HasBlobClass) =>
        LET cls == BlobClass
            absent == {i \in Positions(cls) :
                          /\ FieldAt(cls, i).optional
                          /\ FieldAt(cls, i).name \notin DOMAIN blob.m}
        IN  /\ out.k = "entity" => \A i \in absent : out.f[FieldAt(cls, i).name] = None
            /\ (absent = Positions(cls)) =>
                  out = Entity(cls, [name \in FieldNames(cls) |-> None])

\* C3, its case: a blob of ItemWithDefault (Optional[int], default 1) without
\* the field deserializes to ItemWithDefault(value=None).
AbsentOptionalIsNullWitness ==
    /\ op = "deserialize"
    /\ blob = Dict(META_FIELD :> PyStr("test_dataclass_serializer:ItemWithDefault"))
    /\ out = Entity("ItemWithDefault", [value |-> None])

\* C4 (as claimed): deserializing a blob in which a non-optional field is
\* absent yields an entity whose field equals the declared default, or else
\* the value the default-factory produces.
DefaultsOnAbsent ==
    (op = "deserialize" /\ HasBlobClass /\ out.k = "entity") =>
        \A i \in Positions(BlobClass) :
            LET field == FieldAt(BlobClass, i)
            IN  (~field.optional /\ field.name \notin DOMAIN blob.m) =>
                    out.f[field.name] = IF field.default # MISSING THEN field.default
                                        ELSE Factory(field.factory)

\* A declared field of the blob's type resolves to a value without an exception.
Resolves(field, b) ==
    IF field.name \in DOMAIN b.m THEN ~IsErr(UntagAndDecode(field, b.m[field.name]))
    ELSE \/ field.optional
         \/ /\ _default_value(field) # MISSING
            /\ ~IsErr(UntagAndDecode(field, _default_value(field)))

\* C5: deserializing a blob in which a field is absent that is not optional
\* and has neither default nor default-factory raises; unless an earlier field
\* raised first, the exception is the ValueError "deserialized with unknown
\* value for <field> in <class>", so no entity is constructed.
MissingRequiredFails ==
    (op = "deserialize" /\ HasBlobClass) =>
        LET cls == BlobClass
            missing == {i \in Positions(cls) :
                           /\ FieldAt(cls, i).name \notin DOMAIN blob.m
                           /\ ~FieldAt(cls, i).optional
                           /\ FieldAt(cls, i).default = MISSING
                           /\ FieldAt(cls, i).factory = "none"}
        IN  \A i \in missing :
               /\ IsErr(out)
               /\ (\A j \in 1..(i - 1) : Resolves(FieldAt(cls, j), blob)) =>
                     out = Err("ValueError",
                               <<"deserialized with unknown value for {} in {}",
                                 FieldAt(cls, i).name, cls>>)

\* C5, its case: a blob of Item without its field.
MissingRequiredFailsWitness ==
    /\ op = "deserialize"
    /\ blob = Dict(META_FIELD :> PyStr("test_dataclass_serializer:Item"))
    /\ out = Err("ValueError",
                 <<"deserialized with unknown value for {} in {}", "value", "Item">>)

\* A field's value passes the checks of construction.
FieldPasses(field, value) ==
    /\ value = None => field.optional
    /\ (field.contract # "none" /\ value # None) =>
          (~ContractRaises(field.contract, value) /\ ContractHolds(field.contract, value))

\* A field's value passes serialize.
SerializesFine(field, value) ==
    /\ value = None => field.optional
    /\ ~(field.encode # "none" /\ field.decode = "none")
    /\ LET encoded == IF field.encode = "none" THEN value ELSE Hook(field.encode, value)
       IN  ~IsErr(encoded) /\ ~IsErr(_serialize(encoded))

\* The positions at which construction from the field values f, or serialize of
\* them, meets None in a field that is not optional, every earlier field passing.
NullOffenders(cls, f) ==
    {i \in Positions(cls) :
        /\ f[FieldAt(cls, i).name] = None
        /\ ~FieldAt(cls, i).optional
        /\ \A j \in 1..(i - 1) : FieldPasses(FieldAt(cls, j), f[FieldAt(cls, j).name])}
SerializeNullOffenders(cls, f) ==
    {i \in Positions(cls) :
        /\ f[FieldAt(cls, i).name] = None
        /\ ~FieldAt(cls, i).optional
        /\ \A j \in 1..(i - 1) : SerializesFine(FieldAt(cls, j), f[FieldAt(cls, j).name])}

NotOptional(name) == Err("TypeError", <<"{} is not optional", name>>)

\* C6: construction with None for a field that is not optional raises
\* TypeError, and so do serialize() and validate() on an entity that holds
\* None in such a field, the field being the first the call fails on; None in
\* an optional field is accepted by construction, and by serialize, which
\* emits None for it.
NullEnforcement ==
    /\ (op = "new" /\ DOMAIN args.kwargs = FieldNames(args.cls)) =>
          /\ \A i \in NullOffenders(args.cls, args.kwargs) :
                out = NotOptional(FieldAt(args.cls, i).name)
          /\ ( /\ \A i \in Positions(args.cls) :
                     FieldPasses(FieldAt(args.cls, i), args.kwargs[FieldAt(args.cls, i).name])
               /\ \E i \in Positions(args.cls) :
                     args.kwargs[FieldAt(args.cls, i).name] = None )
             => out = Entity(args.cls, args.kwargs)
    /\ op = "validate" =>
          \A i \in NullOffenders(obj.cls, obj.f) : out = NotOptional(FieldAt(obj.cls, i).name)
    /\ op = "serialize" =>
          /\ \A i \in SerializeNullOffenders(obj.cls, obj.f) :
                out = NotOptional(FieldAt(obj.cls, i).name)
          /\ ( /\ \A i \in Positions(obj.cls) :
                     /\ SerializesFine(FieldAt(obj.cls, i), obj.f[FieldAt(obj.cls, i).name])
                     /\ FieldAt(obj.cls, i).encode = "none"
               /\ \E i \in Positions(obj.cls) : obj.f[FieldAt(obj.cls, i).name] = None )
             => /\ ~IsErr(out)
                /\ \A i \in Positions(obj.cls) :
                      obj.f[FieldAt(obj.cls, i).name] = None
                         => out.m[FieldAt(obj.cls, i).name] = None

\* C6, its case: an Item whose field was assigned None after construction
\* is serialized.
NullEnforcementWitness ==
    /\ op = "serialize"
    /\ args = [cls |-> "Item", kwargs |-> [value |-> PyInt(1)]]
    /\ obj = Entity("Item", [value |-> None])
    /\ out = NotOptional("value")

\* What a construction from the field values f results in, as far as
\* contracts decide it: the ValueError of the first field whose contract
\* returns false on a value that is not None, every earlier field passing; the
\* entity, when a field with a contract holds None and every field passes.
ContractVerdict(cls, f, res) ==
    /\ \A i \in Positions(cls) :
          LET field == FieldAt(cls, i)
              value == f[field.name]
          IN  ( /\ field.contract # "none"
                /\ value # None
                /\ ~ContractRaises(field.contract, value)
                /\ ~ContractHolds(field.contract, value)
                /\ \A j \in 1..(i - 1) : FieldPasses(FieldAt(cls, j), f[FieldAt(cls, j).name]) )
              => res = Err("ValueError",
                           <<"break the contract for {}, {}", field.name, cls>>)
    /\ ( /\ \A i \in Positions(cls) : FieldPasses(FieldAt(cls, i), f[FieldAt(cls, i).name])
         /\ \E i \in Positions(cls) :
               FieldAt(cls, i).contract # "none" /\ f[FieldAt(cls, i).name] = None )
       => res = Entity(cls, f)

\* The field values deserialize resolves from a blob that holds every field.
ResolvedFields(cls, b) ==
    [name \in FieldNames(cls) |->
        UntagAndDecode(CHOOSE fd \in {FieldAt(cls, i) : i \in Positions(cls)} : fd.name = name,
                       b.m[name])]

\* C7: a construction, direct or as the last step of deserialize, raises
\* ValueError when the contract of a field returns false on the field's value
\* that is not None, the field being the first the construction fails on; on
\* None the contract is not evaluated and nothing is raised.
ContractEnforcement ==
    /\ (op = "new" /\ DOMAIN args.kwargs = FieldNames(args.cls)) =>
          ContractVerdict(args.cls, args.kwargs, out)
    /\ ( /\ op = "deserialize"
         /\ HasBlobClass
         /\ DOMAIN blob.m = FieldNames(BlobClass) \cup {META_FIELD}
         /\ \A name \in FieldNames(BlobClass) : ~IsErr(ResolvedFields(BlobClass, blob)[name]) )
       => ContractVerdict(BlobClass, ResolvedFields(BlobClass, blob), out)

\* C7, its case: the blob of an ItemWithContract that holds -1 is deserialized.
ContractEnforcementWitness ==
    /\ op = "deserialize"
    /\ blob = Dict(("value" :> PyInt(-1))
                   @@ (META_FIELD :> PyStr("test_dataclass_serializer:ItemWithContract")))
    /\ out = Err("ValueError", <<"break the contract for {}, {}", "value", "ItemWithContract">>)

\* C8: for a field that declares encode and decode, serialize stores
\* tag(encode(v)) and deserialize stores decode(untag(raw)); serialize of an
\* entity with a field that declares encode and no decode raises ValueError,
\* the field being the first serialize fails on and its value passing the
\* check for None.
CodecPriority ==
    /\ (op = "serialize" /\ ~IsErr(out)) =>
          \A i \in Positions(obj.cls) :
             LET field == FieldAt(obj.cls, i)
             IN  (field.encode # "none" /\ field.decode # "none") =>
                    out.m[field.name] = _serialize(Hook(field.encode, obj.f[field.name]))
    /\ (op = "deserialize" /\ HasBlobClass /\ out.k = "entity") =>
          \A i \in Positions(BlobClass) :
             LET field == FieldAt(BlobClass, i)
             IN  (field.decode # "none" /\ field.name \in DOMAIN blob.m) =>
                    out.f[field.name] = Hook(field.decode, _deserialize(blob.m[field.name]))
    /\ op = "serialize" =>
          \A i \in Positions(obj.cls) :
             LET field == FieldAt(obj.cls, i)
                 value == obj.f[field.name]
             IN  ( /\ field.encode # "none" /\ field.decode = "none"
                   /\ value = None => field.optional
                   /\ \A j \in 1..(i - 1) :
                         SerializesFine(FieldAt(obj.cls, j), obj.f[FieldAt(obj.cls, j).name]) )
                 => out = Err("ValueError",
                              <<"decode is not implemented for {} in {}", field.name, obj.cls>>)

\* C8, its case: ItemWithListCodec(value=((3,),)), encode list and decode
\* tuple, is serialized to [{"__ser__": "tuple", "value": [3]}] and
\* deserialized to an equal entity.
CodecPriorityWitness ==
    /\ op = "deserialize"
    /\ obj = Entity("ItemWithListCodec", [value |-> Tuple(<<Tuple(<<PyInt(3)>>)>>)])
    /\ blob.m["value"] = List(<<Tagged("tuple", List(<<PyInt(3)>>))>>)
    /\ out = obj

OrderedMapTagging ==
    (op = "serialize" /\ ~IsErr(out) /\ obj.cls = "Item" /\ obj.f["value"].k = "odict") =>
        LET es == obj.f["value"].es
        IN  out.m["value"] =
               Tagged("OrderedDict",
                      List([i \in 1..Len(es) |->
                               List(<<es[i][1], _serialize(es[i][2])>>)]))

\* What serialize tags for a field: the encode hook's result when the field
\* declares one, the field's value otherwise.
PostEncode(field, value) ==
    IF field.encode = "none" THEN value ELSE Hook(field.encode, value)

\* The fields of the entity at hand before position i all pass serialize.
EarlierSerializeFine(i) ==
    \A j \in 1..(i - 1) :
        SerializesFine(FieldAt(obj.cls, j), obj.f[FieldAt(obj.cls, j).name])

\* C11 (as claimed): serialize applies a field's encode hook first and checks
\* the encoded value for None, so whenever the encoded value is None and the
\* field is not optional, serialize raises TypeError "... is not optional"
\* rather than emit None for the field.
PostEncodeNullCheck ==
    (op = "serialize" /\ obj.cls # "Partial") =>
        \A i \in Positions(obj.cls) :
            LET field == FieldAt(obj.cls, i)
            IN  ( /\ EarlierSerializeFine(i)
                  /\ field.encode # "none" /\ field.decode # "none"
                  /\ ~field.optional
                  /\ PostEncode(field, obj.f[field.name]) = None )
                => out = NotOptional(field.name)

\* C11 (amended): serialize checks the field's own value for None before it
\* applies the encode hook, and does not check the hook's result. A field that
\* is not optional and holds None raises TypeError "... is not optional" even
\* when its encode hook would turn None into a value; a field that is not
\* optional and holds a value its encode hook turns into None is emitted as
\* None, with no error.
PreEncodeNullCheck ==
    (op = "serialize" /\ obj.cls # "Partial") =>
        \A i \in Positions(obj.cls) :
            LET field == FieldAt(obj.cls, i)
                value == obj.f[field.name]
            IN  ( /\ EarlierSerializeFine(i)
                  /\ field.encode # "none" /\ field.decode # "none"
                  /\ ~field.optional )
                => /\ value = None => out = NotOptional(field.name)
                   /\ (value # None /\ PostEncode(field, value) = None) =>
                         IF \A j \in Positions(obj.cls) :
                                SerializesFine(FieldAt(obj.cls, j), obj.f[FieldAt(obj.cls, j).name])
                         THEN ~IsErr(out) /\ out.m[field.name] = None
                         ELSE out # NotOptional(field.name)

\* serialize was called on an entity whose non-optional field holds -1, which
\* its encode hook turns into None, and it emitted None for the field.
PreEncodeNullCheckWitness ==
    /\ op = "serialize"
    /\ obj = Entity("ItemWithNullCodec", [value |-> PyInt(-1)])
    /\ PostEncode(FieldAt("ItemWithNullCodec", 1), obj.f["value"]) = None
    /\ ~IsErr(out)
    /\ out.m["value"] = None
====
